---- MODULE Spec2Model ----
(***************************************************************************)
(* Model of docker-compose-bundler (main.go): Bundler.Bundle and the       *)
(* functions it calls, run against a container engine whose calls can      *)
(* fail.  Strings are sequences of one-character strings so that           *)
(* sanitizeFilename, strings.HasPrefix and the semver regular expression   *)
(* are computed on characters, as the code computes them.                  *)
(***************************************************************************)
EXTENDS Naturals, Integers, Sequences, FiniteSets, Bags, TLC

\* ------------------------------------------------------------------ bounds
MaxServices == 2
MaxCoreLen == 6
MaxSufLen == 2

\* ----------------------------------------------------------------- strings
Digit == {"0", "1", "2", "3", "4", "5", "6", "7", "8", "9"}

NonZeroDigit == Digit \ {"0"}

Letter == {"a", "b", "c", "d", "e", "f", "g", "h", "i", "j", "k", "l", "m",
           "n", "o", "p", "q", "r", "s", "t", "u", "v", "w", "x", "y", "z",
           "A", "B", "C", "D", "E", "F", "G", "H", "I", "J", "K", "L", "M",
           "N", "O", "P", "Q", "R", "S", "T", "U", "V", "W", "X", "Y", "Z"}

\* \w of Go's regexp: [0-9A-Za-z_]
Word == Digit \cup Letter \cup {"_"}

\* [\w\.-]
IdentChar == Word \cup {".", "-"}

HasPrefix(s, prefix) ==
    /\ Len(s) >= Len(prefix)
    /\ SubSeq(s, 1, Len(prefix)) = prefix

\* ---------------------------------------------------- regular expressions
\* A regular expression is a tree: [op |-> "cls", set |-> S] one character
\* of S; "seq" (parts, in order); "alt" (one of parts); "opt" (r or
\* nothing); "star" / "plus" (repetition of r).
Cls(S) == [op |-> "cls", set |-> S]

Lit(c) == Cls({c})

Cat(parts) == [op |-> "seq", parts |-> parts]

Alt(parts) == [op |-> "alt", parts |-> parts]

Opt(r) == [op |-> "opt", r |-> r]

Star(r) == [op |-> "star", r |-> r]

Plus(r) == [op |-> "plus", r |-> r]

RECURSIVE MatchEnds(_, _, _)
RECURSIVE MatchSeq(_, _, _, _)
RECURSIVE MatchStar(_, _, _)

\* The positions at which a match of re can end when it starts at one of
\* the positions of starts (position i is "before s[i]").
MatchEnds(re, s, starts) ==
    CASE re.op = "cls" ->
            {i + 1 : i \in {j \in starts : j <= Len(s) /\ s[j] \in re.set}}
      [] re.op = "seq" -> MatchSeq(re.parts, 1, s, starts)
      [] re.op = "alt" ->
            UNION {MatchEnds(re.parts[k], s, starts) : k \in DOMAIN re.parts}
      [] re.op = "opt" -> starts \cup MatchEnds(re.r, s, starts)
      [] re.op = "star" -> MatchStar(re.r, s, starts)
      [] re.op = "plus" -> MatchStar(re.r, s, MatchEnds(re.r, s, starts))

MatchSeq(parts, k, s, starts) ==
    IF k > Len(parts) THEN starts
    ELSE MatchSeq(parts, k + 1, s, MatchEnds(parts[k], s, starts))

MatchStar(r, s, cur) ==
    LET nxt == cur \cup MatchEnds(r, s, cur)
    IN  IF nxt = cur THEN cur ELSE MatchStar(r, s, nxt)

\* (0|[1-9]\d*)
NumericGroup == Alt(<<Lit("0"), Cat(<<Cls(NonZeroDigit), Star(Cls(Digit))>>)>>)

\* ^v?(0|[1-9]\d*)\.(0|[1-9]\d*)\.(0|[1-9]\d*)(?:-[\w\.-]+)?(?:\+[\w\.-]+)?$
semverRegex ==
    Cat(<<Opt(Lit("v")),
          NumericGroup, Lit("."), NumericGroup, Lit("."), NumericGroup,
          Opt(Cat(<<Lit("-"), Plus(Cls(IdentChar))>>)),
          Opt(Cat(<<Lit("+"), Plus(Cls(IdentChar))>>))>>)

\* regexp.MatchString for a pattern anchored with ^ and $: a match starts
\* at the first position and ends after the last character.
MatchStringUnanchoredEnd(re, s) == MatchEnds(re, s, {1}) # {}

MatchString(re, s) == (Len(s) + 1) \in MatchEnds(re, s, {1})

isValidSemver(version) == MatchString(semverRegex, version)

\* ------------------------------------------------------ filename sanitizer
\* The characters strings.NewReplacer maps to "-"
SanitizedChars == {"/", ":", "\\", "*", "?", "\"", "<", ">", "|"}

sanitizeFilename(name) ==
    [i \in 1..Len(name) |-> IF name[i] \in SanitizedChars THEN "-" ELSE name[i]]

TarExt == <<".", "t", "a", "r">>

\* fmt.Sprintf("%s.tar", sanitizeFilename(imageName))
TarFileName(imageName) == sanitizeFilename(imageName) \o TarExt

\* fmt.Sprintf("bundles/%s/%s:%s", bundleName, serviceName, bundleVersion)
BundlesPrefix == <<"b", "u", "n", "d", "l", "e", "s", "/">>

SyntheticRef(bundleName, serviceName, bundleVersion) ==
    BundlesPrefix \o bundleName \o <<"/">> \o serviceName \o <<":">> \o bundleVersion

\* the prefix cleanupImages looks for
BundledPrefix == <<"b", "u", "n", "d", "l", "e", "d", "-">>

\* ------------------------------------------------------------------ inputs
ServiceNamePool == << <<"a">>, <<"b">>, <<"c">> >>

ServiceNames == {ServiceNamePool[i] : i \in 1..MaxServices}

RefSlash == <<"r", "/", "x">>

RefColon == <<"r", ":", "x">>

RefBundled == BundledPrefix \o <<"x">>

\* the image references a service's image field is drawn from
ImageRefs == {RefSlash, RefColon, RefBundled}

\* Service.Build is an interface{}: nil, a string, a mapping, or another
\* YAML value (a list), which parseBuildConfig rejects.
BuildValues == {"nil", "string", "map", "list"}

\* Service: only the fields Bundle reads or writes.  A service with a build
\* value comes without an image or with one image.
Services ==
    {sv \in [Image : {<<>>} \cup ImageRefs, Build : BuildValues] :
        sv.Build = "nil" \/ sv.Image \in {<<>>, RefSlash}}

V100 == <<"1", ".", "0", ".", "0">>

V12 == <<"1", ".", "2">>

\* compose.XBundle: nil, or a name and a version
NoXBundle == [nil |-> TRUE, Name |-> <<>>, Version |-> <<>>]

XBundleOf(name, version) == [nil |-> FALSE, Name |-> name, Version |-> version]

BundleNames == {<<>>, <<"n">>}

RunVersions == {<<>>, V100, V12}

Composes ==
    [XBundle : {NoXBundle} \cup {XBundleOf(n, v) : n \in BundleNames, v \in RunVersions},
     Services : [ServiceNames -> Services]]

\* ------------------------------------------------------------------- state
VARIABLES
    pc,                   \* position in Bundle
    compose,              \* the parsed DockerCompose
    todo,                 \* services the range loop has not visited yet
    cur,                  \* the service pullImageIfNotExists is working for
    ret,                  \* last return of processServiceWithBundle
    imageMap,             \* image reference -> tar file name
    freshlyPulledImages,  \* Bundler.freshlyPulledImages
    localImages,          \* images the engine holds
    initialImages,        \* images the engine held when the run started
    parsed,               \* the manifest as parseComposeFile read it
    reply,                \* outcome of the last engine call
    builtThisRun,         \* references a build of this run tagged
    calls,                \* engine calls issued so far, per operation
    removeFailed,         \* references whose removal failed
    tempDir,              \* the temporary directory exists
    deferred,             \* defer os.RemoveAll(tempDir) is registered
    imageFiles,           \* images/ : tar file name -> image saved in it
    tempFiles,            \* top-level entries of the temporary directory
    saveTodo,             \* imageMap keys the save loop has not visited
    cleanTodo,            \* images a cleanup loop has not visited
    outputFile,           \* state of the file at the output path
    archive,              \* entries written to the output archive
    result,               \* what Bundle returned: "none", "ok", "err"
    ctxTree,              \* the build-context directory being archived
    producer,             \* the goroutine of createBuildContextTar
    pipe,                 \* the io.Pipe between producer and build call
    consumer              \* the build call reading the pipe

vars == <<pc, compose, todo, cur, ret, imageMap, freshlyPulledImages,
          localImages, initialImages, parsed, reply, builtThisRun, calls,
          removeFailed, tempDir, deferred, imageFiles, tempFiles, saveTodo, cleanTodo,
          outputFile, archive, result, ctxTree, producer, pipe, consumer>>

\* the variables of Bundle, and those of one build-context transfer
bundleVars == <<pc, compose, todo, cur, ret, imageMap, freshlyPulledImages,
                localImages, initialImages, parsed, reply, builtThisRun,
                calls, removeFailed, tempDir, deferred, imageFiles,
                tempFiles, saveTodo, cleanTodo, outputFile, archive, result>>

ctxVars == <<ctxTree, producer, pipe, consumer>>

EngineOps == {"build", "pull", "inspect", "save", "remove"}

NoCalls == [op \in EngineOps |-> EmptyBag]

Issue(op, ref) == [calls EXCEPT ![op] = @ (+) SetToBag({ref})]

NoReturn == [svc |-> <<>>, imageName |-> <<>>, err |-> FALSE]

NoArchive == [files |-> {}, images |-> {}]

InitRest ==
    /\ pc = "parse"
    /\ todo = {}
    /\ cur = <<>>
    /\ ret = NoReturn
    /\ imageMap = <<>>
    /\ freshlyPulledImages = {}
    /\ initialImages = localImages
    /\ parsed = compose
    /\ reply = "none"
    /\ builtThisRun = {}
    /\ calls = NoCalls
    /\ removeFailed = {}
    /\ tempDir = FALSE
    /\ deferred = FALSE
    /\ imageFiles = <<>>
    /\ tempFiles = {}
    /\ saveTodo = {}
    /\ cleanTodo = {}
    /\ outputFile = "absent"
    /\ archive = NoArchive
    /\ result = "none"

NoChunk == [kind |-> "none", path |-> <<>>]

IdleProducer ==
    [pc |-> "idle", cur |-> <<>>, stack |-> <<>>, entries |-> {},
     tarErr |-> FALSE, walkErr |-> FALSE]

OpenPipe == [pending |-> NoChunk, readerClosed |-> FALSE, writerClosed |-> FALSE]

IdleConsumer == [pc |-> "idle", received |-> {}, eof |-> FALSE]

\* no build-context transfer is modelled in the run of Bundle
NoContext ==
    /\ ctxTree = {}
    /\ producer = IdleProducer
    /\ pipe = OpenPipe
    /\ consumer = IdleConsumer

Init ==
    /\ compose \in Composes
    /\ localImages \in SUBSET ImageRefs
    /\ InitRest
    /\ NoContext

\* ------------------------------------------------------------ return paths
\* The deferred os.RemoveAll(tempDir) runs when Bundle returns.
RunDeferredNever(exists, registered) == exists

RunDeferred(exists, registered) == IF registered THEN FALSE ELSE exists

\* return fmt.Errorf(...)
ReturnErr ==
    /\ result' = "err"
    /\ pc' = "done"
    /\ tempDir' = RunDeferred(tempDir, deferred)

\* ------------------------------------------------- parse and validate
\* parseComposeFile: os.ReadFile or yaml.Unmarshal may fail
ParseComposeFile ==
    /\ pc = "parse"
    /\ \E ok \in BOOLEAN :
          IF ok THEN /\ pc' = "validate"
                     /\ UNCHANGED <<result, tempDir>>
                ELSE ReturnErr
    /\ UNCHANGED <<compose, todo, cur, ret, imageMap, freshlyPulledImages,
                   localImages, initialImages, parsed, ctxVars, reply, builtThisRun, calls,
                   removeFailed, deferred, imageFiles, tempFiles, saveTodo,
                   cleanTodo, outputFile, archive>>

validateWithoutSemver(c) ==
    IF c.XBundle.nil THEN "missing x-bundle entry"
    ELSE IF c.XBundle.Name = <<>> THEN "missing name"
    ELSE IF c.XBundle.Version = <<>> THEN "missing version"
    ELSE "ok"

\* the four checks of "Validate x-bundle", in order
validateBundleMetadata(c) ==
    IF c.XBundle.nil THEN "missing x-bundle entry"
    ELSE IF c.XBundle.Name = <<>> THEN "missing name"
    ELSE IF c.XBundle.Version = <<>> THEN "missing version"
    ELSE IF ~isValidSemver(c.XBundle.Version) THEN "invalid version"
    ELSE "ok"

ValidateXBundle ==
    /\ pc = "validate"
    /\ IF validateBundleMetadata(compose) = "ok"
          THEN /\ pc' = "services"
               /\ todo' = DOMAIN compose.Services
               /\ UNCHANGED <<result, tempDir>>
          ELSE /\ ReturnErr
               /\ UNCHANGED todo
    /\ UNCHANGED <<compose, cur, ret, imageMap, freshlyPulledImages,
                   localImages, initialImages, parsed, ctxVars, reply, builtThisRun, calls,
                   removeFailed, deferred, imageFiles, tempFiles, saveTodo,
                   cleanTodo, outputFile, archive>>

\* ------------------------------------------------------- service loop
\* parseBuildConfig: a string or a mapping gives a BuildConfig, any other
\* type is "invalid build configuration type"
parseBuildConfig(build) == build \in {"string", "map"}

CallOutcomes == {"callErr", "decodeErr", "errorFrame", "ok"}

\* Bundle, lines 130-135, for a non-empty imageName: record the tar file
\* name and store the (possibly updated) service back in the manifest
StoreNever(c, serviceName, service) == c

Store(c, serviceName, service) ==
    [c EXCEPT !.Services[serviceName] = service]

Resolved(serviceName, service, imageName) ==
    /\ imageMap' = (imageName :> TarFileName(imageName)) @@ imageMap
    /\ compose' = Store(compose, serviceName, service)
    /\ ret' = [svc |-> serviceName, imageName |-> imageName, err |-> FALSE]
    /\ todo' = todo \ {serviceName}
    /\ pc' = "services"
    /\ UNCHANGED <<result, tempDir>>

ProcessFailedContinue(serviceName) ==
    /\ ret' = [svc |-> serviceName, imageName |-> <<>>, err |-> TRUE]
    /\ todo' = todo \ {serviceName}
    /\ pc' = "services"
    /\ UNCHANGED <<result, tempDir, imageMap, compose>>

\* processServiceWithBundle returned ("", err): Bundle returns the error
ProcessFailed(serviceName) ==
    /\ ret' = [svc |-> serviceName, imageName |-> <<>>, err |-> TRUE]
    /\ ReturnErr
    /\ UNCHANGED <<imageMap, compose, todo>>

\* processServiceWithBundle, service.Build != nil, and buildImage
BuildService(s) ==
    /\ pc = "services"
    /\ s \in todo
    /\ compose.Services[s].Build # "nil"
    /\ LET service == compose.Services[s]
           imageName == SyntheticRef(compose.XBundle.Name, s,
                                     compose.XBundle.Version)
       IN  IF ~parseBuildConfig(service.Build)
           THEN /\ ProcessFailed(s)
                /\ UNCHANGED <<calls, reply, localImages, builtThisRun>>
           ELSE \E outcome \in CallOutcomes :
                  /\ calls' = Issue("build", imageName)
                  /\ reply' = outcome
                  /\ IF outcome = "ok"
                        THEN /\ localImages' = localImages \cup {imageName}
                             /\ builtThisRun' = builtThisRun \cup {imageName}
                             /\ Resolved(s, [service EXCEPT !.Image = imageName,
                                                            !.Build = "nil"],
                                         imageName)
                        ELSE /\ ProcessFailed(s)
                             /\ UNCHANGED <<localImages, builtThisRun>>
    /\ UNCHANGED <<cur, freshlyPulledImages, initialImages, parsed, ctxVars, removeFailed,
                   deferred, imageFiles, tempFiles, saveTodo, cleanTodo,
                   outputFile, archive>>

\* processServiceWithBundle, service.Image != "", and the ImageInspect of
\* pullImageIfNotExists
InspectService(s) ==
    /\ pc = "services"
    /\ s \in todo
    /\ compose.Services[s].Build = "nil"
    /\ compose.Services[s].Image # <<>>
    /\ LET service == compose.Services[s]
       IN  /\ calls' = Issue("inspect", service.Image)
           /\ reply' = IF service.Image \in localImages THEN "found" ELSE "absent"
           /\ IF service.Image \in localImages
                 THEN /\ Resolved(s, service, service.Image)
                      /\ UNCHANGED cur
                 ELSE /\ pc' = "pull"
                      /\ cur' = s
                      /\ UNCHANGED <<imageMap, compose, ret, todo, result,
                                     tempDir>>
    /\ UNCHANGED <<freshlyPulledImages, localImages, initialImages, parsed, ctxVars,
                   builtThisRun, removeFailed, deferred, imageFiles,
                   tempFiles, saveTodo, cleanTodo, outputFile, archive>>

\* b.freshlyPulledImages[imageName] = true, reached once ImagePull has
\* returned a reader
MarkPulledOnSuccessOnly(pulled, imageName, outcome) ==
    IF outcome = "ok" THEN pulled \cup {imageName} ELSE pulled

MarkPulled(pulled, imageName, outcome) ==
    IF outcome = "callErr" THEN pulled ELSE pulled \cup {imageName}

\* pullImageIfNotExists after the inspect found nothing: ImagePull and the
\* decoding of its stream
PullImage ==
    /\ pc = "pull"
    /\ LET service == compose.Services[cur]
       IN  \E outcome \in CallOutcomes :
             /\ calls' = Issue("pull", service.Image)
             /\ reply' = outcome
             /\ freshlyPulledImages' =
                    MarkPulled(freshlyPulledImages, service.Image, outcome)
             /\ IF outcome = "ok"
                   THEN /\ localImages' = localImages \cup {service.Image}
                        /\ Resolved(cur, service, service.Image)
                   ELSE /\ ProcessFailed(cur)
                        /\ UNCHANGED localImages
    /\ UNCHANGED <<cur, initialImages, parsed, ctxVars, builtThisRun, removeFailed, deferred,
                   imageFiles, tempFiles, saveTodo, cleanTodo, outputFile,
                   archive>>

\* processServiceWithBundle with neither build nor image: ("", nil)
SkipService(s) ==
    /\ pc = "services"
    /\ s \in todo
    /\ compose.Services[s].Build = "nil"
    /\ compose.Services[s].Image = <<>>
    /\ ret' = [svc |-> s, imageName |-> <<>>, err |-> FALSE]
    /\ todo' = todo \ {s}
    /\ UNCHANGED <<pc, compose, cur, imageMap, freshlyPulledImages,
                   localImages, initialImages, parsed, ctxVars, reply, builtThisRun, calls,
                   removeFailed, tempDir, deferred, imageFiles, tempFiles,
                   saveTodo, cleanTodo, outputFile, archive, result>>

\* ---------------------------------------------------- temporary directory
\* os.MkdirTemp and defer os.RemoveAll(tempDir), after the service loop
MkdirTemp ==
    /\ pc = "services"
    /\ todo = {}
    /\ \E ok \in BOOLEAN :
          IF ok THEN /\ tempDir' = TRUE
                     /\ deferred' = TRUE
                     /\ pc' = "mkimages"
                     /\ UNCHANGED result
                ELSE /\ ReturnErr
                     /\ UNCHANGED deferred
    /\ UNCHANGED <<compose, todo, cur, ret, imageMap, freshlyPulledImages,
                   localImages, initialImages, parsed, ctxVars, reply, builtThisRun, calls,
                   removeFailed, imageFiles, tempFiles, saveTodo, cleanTodo,
                   outputFile, archive>>

\* os.MkdirAll(imagesDir)
MkdirImages ==
    /\ pc = "mkimages"
    /\ \E ok \in BOOLEAN :
          IF ok THEN /\ tempFiles' = tempFiles \cup {"images"}
                     /\ saveTodo' = DOMAIN imageMap
                     /\ pc' = "save"
                     /\ UNCHANGED <<result, tempDir>>
                ELSE /\ ReturnErr
                     /\ UNCHANGED <<tempFiles, saveTodo>>
    /\ UNCHANGED <<compose, todo, cur, ret, imageMap, freshlyPulledImages,
                   localImages, initialImages, parsed, ctxVars, reply, builtThisRun, calls,
                   removeFailed, deferred, imageFiles, cleanTodo, outputFile,
                   archive>>

\* ------------------------------------------------------------- save loop
SaveOutcomes == {"saveErr", "createErr", "copyErr", "ok"}

\* os.Create(outputPath) and io.Copy: the file holds the image, whatever
\* the path held before
WriteTar(files, tarFileName, imageName, complete) ==
    (tarFileName :> [image |-> imageName, complete |-> complete]) @@ files

SaveImageIgnoringErrors(imageName) ==
    /\ pc = "save"
    /\ imageName \in saveTodo
    /\ calls' = Issue("save", imageName)
    /\ \E outcome \in SaveOutcomes :
          /\ reply' = outcome
          /\ imageFiles' =
                IF outcome \in {"copyErr", "ok"}
                THEN WriteTar(imageFiles, imageMap[imageName], imageName,
                              outcome = "ok")
                ELSE imageFiles
    /\ saveTodo' = saveTodo \ {imageName}
    /\ UNCHANGED <<pc, result, tempDir, compose, todo, cur, ret, imageMap,
                   freshlyPulledImages, localImages, initialImages, parsed, ctxVars,
                   builtThisRun, removeFailed, deferred, tempFiles, cleanTodo,
                   outputFile, archive>>

\* one iteration of "Save images to tar files": saveImage(imageName, tarPath)
SaveImage(imageName) ==
    /\ pc = "save"
    /\ imageName \in saveTodo
    /\ calls' = Issue("save", imageName)
    /\ \E outcome \in SaveOutcomes :
          /\ reply' = outcome
          /\ imageFiles' =
                IF outcome \in {"copyErr", "ok"}
                THEN WriteTar(imageFiles, imageMap[imageName], imageName,
                              outcome = "ok")
                ELSE imageFiles
          /\ IF outcome = "ok"
                THEN /\ saveTodo' = saveTodo \ {imageName}
                     /\ UNCHANGED <<pc, result, tempDir>>
                ELSE /\ ReturnErr
                     /\ UNCHANGED saveTodo
    /\ UNCHANGED <<compose, todo, cur, ret, imageMap, freshlyPulledImages,
                   localImages, initialImages, parsed, ctxVars, builtThisRun, removeFailed,
                   deferred, tempFiles, cleanTodo, outputFile, archive>>

\* --------------------------------------------------------------- assembly
\* updateComposeForBundle: the loop body is empty, the manifest is left as
\* the service loop made it
updateComposeForBundle(c, m) == c

\* updateComposeForBundle and writeComposeFile, after the save loop
WriteComposeFile ==
    /\ pc = "save"
    /\ saveTodo = {}
    /\ compose' = updateComposeForBundle(compose, imageMap)
    /\ \E ok \in BOOLEAN :
          IF ok THEN /\ tempFiles' = tempFiles \cup {"docker-compose.yml"}
                     /\ pc' = "loadScript"
                     /\ UNCHANGED <<result, tempDir>>
                ELSE /\ ReturnErr
                     /\ UNCHANGED tempFiles
    /\ UNCHANGED <<todo, cur, ret, imageMap, freshlyPulledImages,
                   localImages, initialImages, parsed, ctxVars, reply, builtThisRun, calls,
                   removeFailed, deferred, imageFiles, saveTodo, cleanTodo,
                   outputFile, archive>>

\* createLoadScript: load-images.sh, then load-images.bat
CreateLoadScript ==
    /\ pc = "loadScript"
    /\ \E outcome \in {"shErr", "batErr", "ok"} :
          /\ tempFiles' =
                CASE outcome = "shErr" -> tempFiles
                  [] outcome = "batErr" -> tempFiles \cup {"load-images.sh"}
                  [] outcome = "ok" ->
                        tempFiles \cup {"load-images.sh", "load-images.bat"}
          /\ IF outcome = "ok"
                THEN /\ pc' = "readme"
                     /\ UNCHANGED <<result, tempDir>>
                ELSE ReturnErr
    /\ UNCHANGED <<compose, todo, cur, ret, imageMap, freshlyPulledImages,
                   localImages, initialImages, parsed, ctxVars, reply, builtThisRun, calls,
                   removeFailed, deferred, imageFiles, saveTodo, cleanTodo,
                   outputFile, archive>>

\* createReadme
CreateReadme ==
    /\ pc = "readme"
    /\ \E ok \in BOOLEAN :
          IF ok THEN /\ tempFiles' = tempFiles \cup {"README.md"}
                     /\ pc' = "targz"
                     /\ UNCHANGED <<result, tempDir>>
                ELSE /\ ReturnErr
                     /\ UNCHANGED tempFiles
    /\ UNCHANGED <<compose, todo, cur, ret, imageMap, freshlyPulledImages,
                   localImages, initialImages, parsed, ctxVars, reply, builtThisRun, calls,
                   removeFailed, deferred, imageFiles, saveTodo, cleanTodo,
                   outputFile, archive>>

\* the set cleanupImages collects: images of services with the prefix
\* "bundled-"
builtImages(c) ==
    {c.Services[s].Image : s \in {t \in DOMAIN c.Services :
        /\ c.Services[t].Image # <<>>
        /\ HasPrefix(c.Services[t].Image, BundledPrefix)}}

\* createTarGz: os.Create(outputFile), then the walk over the temporary
\* directory.  A failed walk leaves what was written so far at the output
\* path; nothing in createTarGz or Bundle removes it.
CreateTarGz ==
    /\ pc = "targz"
    /\ \E outcome \in {"createErr", "walkErr", "ok"} :
          /\ outputFile' =
                CASE outcome = "createErr" -> outputFile
                  [] outcome = "walkErr" -> "partial"
                  [] outcome = "ok" -> "complete"
          /\ archive' =
                IF outcome = "ok"
                THEN [files |-> tempFiles, images |-> DOMAIN imageFiles]
                ELSE archive
          /\ IF outcome = "ok"
                THEN /\ pc' = "cleanupBuilt"
                     /\ cleanTodo' = builtImages(compose)
                     /\ UNCHANGED <<result, tempDir>>
                ELSE /\ ReturnErr
                     /\ UNCHANGED cleanTodo
    /\ UNCHANGED <<compose, todo, cur, ret, imageMap, freshlyPulledImages,
                   localImages, initialImages, parsed, ctxVars, reply, builtThisRun, calls,
                   removeFailed, deferred, imageFiles, tempFiles, saveTodo>>

\* ---------------------------------------------------------------- cleanup
\* client.ImageRemove: fails when the engine does not hold the image, and
\* may fail when it does (the image is in use)
ImageRemove(imageName, ok) ==
    /\ ok => imageName \in localImages
    /\ calls' = Issue("remove", imageName)
    /\ reply' = IF ok THEN "ok" ELSE "removeErr"
    /\ localImages' = IF ok THEN localImages \ {imageName} ELSE localImages
    /\ removeFailed' = IF ok THEN removeFailed ELSE removeFailed \cup {imageName}

\* what a cleanup loop still has to visit after the removal of imageName:
\* a failure is printed as a warning and the loop goes on
RemainingAbortOnError(remaining, imageName, ok) ==
    IF ok THEN remaining \ {imageName} ELSE {}

Remaining(remaining, imageName, ok) == remaining \ {imageName}

\* one iteration of the loop of cleanupImages
RemoveBuiltImage(imageName) ==
    /\ pc = "cleanupBuilt"
    /\ imageName \in cleanTodo
    /\ \E ok \in BOOLEAN :
          /\ ImageRemove(imageName, ok)
          /\ cleanTodo' = Remaining(cleanTodo, imageName, ok)
    /\ UNCHANGED <<pc, compose, todo, cur, ret, imageMap,
                   freshlyPulledImages, initialImages, parsed, ctxVars, builtThisRun,
                   tempDir, deferred, imageFiles, tempFiles, saveTodo,
                   outputFile, archive, result>>

\* cleanupImages returns nil; cleanupFreshlyPulledImages starts
CleanupImagesReturn ==
    /\ pc = "cleanupBuilt"
    /\ cleanTodo = {}
    /\ pc' = "cleanupPulled"
    /\ cleanTodo' = freshlyPulledImages
    /\ UNCHANGED <<compose, todo, cur, ret, imageMap, freshlyPulledImages,
                   localImages, initialImages, parsed, ctxVars, reply, builtThisRun,
                   calls, removeFailed, tempDir, deferred, imageFiles,
                   tempFiles, saveTodo, outputFile, archive, result>>

\* one iteration of the loop of cleanupFreshlyPulledImages
RemovePulledImage(imageName) ==
    /\ pc = "cleanupPulled"
    /\ imageName \in cleanTodo
    /\ \E ok \in BOOLEAN :
          /\ ImageRemove(imageName, ok)
          /\ cleanTodo' = Remaining(cleanTodo, imageName, ok)
    /\ UNCHANGED <<pc, compose, todo, cur, ret, imageMap,
                   freshlyPulledImages, initialImages, parsed, ctxVars, builtThisRun,
                   tempDir, deferred, imageFiles, tempFiles, saveTodo,
                   outputFile, archive, result>>

\* cleanupFreshlyPulledImages returns nil; Bundle returns nil
BundleReturn ==
    /\ pc = "cleanupPulled"
    /\ cleanTodo = {}
    /\ result' = "ok"
    /\ pc' = "done"
    /\ tempDir' = RunDeferred(tempDir, deferred)
    /\ UNCHANGED <<compose, todo, cur, ret, imageMap, freshlyPulledImages,
                   localImages, initialImages, parsed, ctxVars, reply, builtThisRun, calls,
                   removeFailed, deferred, imageFiles, tempFiles, saveTodo,
                   cleanTodo, outputFile, archive>>

\* ---------------------------------------------------------- specification
Next ==
    \/ ParseComposeFile
    \/ ValidateXBundle
    \/ \E s \in ServiceNames : BuildService(s)
    \/ \E s \in ServiceNames : InspectService(s)
    \/ PullImage
    \/ \E s \in ServiceNames : SkipService(s)
    \/ MkdirTemp
    \/ MkdirImages
    \/ \E r \in DOMAIN imageMap : SaveImage(r)
    \/ WriteComposeFile
    \/ CreateLoadScript
    \/ CreateReadme
    \/ CreateTarGz
    \/ \E r \in cleanTodo : RemoveBuiltImage(r)
    \/ CleanupImagesReturn
    \/ \E r \in cleanTodo : RemovePulledImage(r)
    \/ BundleReturn

Spec == Init /\ [][Next]_vars


\* ------------------------------------------- specification of validation
\* Bundle up to the end of "Validate x-bundle", over version strings made
\* of an optional "v", a core over CoreAlphabet and a suffix over
\* SufAlphabet, and over the versions of VersionSamples.
CoreAlphabet == {"0", "1", "."}

SufAlphabet == {"-", "+", "a", "!"}

SeqsUpTo(S, n) == UNION {[1..k -> S] : k \in 0..n}

VersionSamples ==
    {<<"a", "b", "c">>,
     <<"1", ".", "2", ".", "3", ".", "4">>,
     <<"1", ".", "2", ".", "3">>,
     <<"v", "1", ".", "0", ".", "0", "-", "a", "+", "a">>,
     <<"1", ".", "0", ".", "0", "+", "a", "-", "a">>,
     <<"1", ".", "0", ".", "0", "+", "a", "+", "a">>,
     <<"1", ".", "0", ".", "0", "-", "r", "c", ".", "1", "+", "b", "_", "7">>,
     <<"V", "1", ".", "0", ".", "0">>,
     <<"v", "v", "1", ".", "0", ".", "0">>,
     <<"1", ".", "0", ".", "0", " ">>,
     <<"1", "0", ".", "2", "0", ".", "3", "0">>,
     <<"1", ".", "0", ".", "0", "1">>,
     <<"1", ".", "0", ".", "0", "-", ".">>,
     <<"1", ".", "0", ".", "0", "-", "a", ".", "b">>,
     <<"1", ".", "0", ".", "0", "+", ".", "a">>,
     <<"1", ".", "0", ".", "0", "-", "a", "!">>,
     <<"1", ".", "0", ".", "0", ".">>,
     <<".", "1", ".", "0", ".", "0">>}

NoService == [Image |-> <<>>, Build |-> "nil"]

\* a manifest without services and with the given x-bundle block
ComposeOf(xbundle) ==
    [XBundle |-> xbundle, Services |-> [s \in ServiceNames |-> NoService]]

InitValidate ==
    /\ \/ compose = ComposeOf(NoXBundle)
       \/ \E n \in BundleNames, v \in VersionSamples \cup {<<>>} :
             compose = ComposeOf(XBundleOf(n, v))
       \/ \E p \in {<<>>, <<"v">>}, c \in SeqsUpTo(CoreAlphabet, MaxCoreLen),
             t \in SeqsUpTo(SufAlphabet, MaxSufLen) :
             compose = ComposeOf(XBundleOf(<<"n">>, p \o c \o t))
    /\ localImages = {}
    /\ InitRest
    /\ NoContext

NextValidate == ParseComposeFile \/ ValidateXBundle

SpecValidate == InitValidate /\ [][NextValidate]_vars

\* ------------------------------------------------ build-context transfer
\* buildImage, lines 309-334: createBuildContextTar starts a goroutine that
\* walks the context directory and writes a tar stream into an io.Pipe,
\* and the build call reads the other end.  A path is a sequence of names,
\* a name a sequence of characters.
MaxEntries == 4

DotGit == <<".", "g", "i", "t">>

GitIgnore == <<".", "g", "i", "t", "i", "g", "n", "o", "r", "e">>

DockerIgnore == <<".", "d">>

Dockerfile == <<"D">>

SrcDir == <<"s">>

HeadFile == <<"H">>

AppFile == <<"a">>

File(path) == [path |-> path, dir |-> FALSE]

Dir(path) == [path |-> path, dir |-> TRUE]

\* the entries a context directory is made of
ContextEntries ==
    {File(<<DockerIgnore>>), Dir(<<DotGit>>), File(<<DotGit, HeadFile>>),
     File(<<GitIgnore>>), File(<<Dockerfile>>), Dir(<<SrcDir>>),
     File(<<SrcDir, GitIgnore>>), File(<<SrcDir, AppFile>>)}

Parent(path) == SubSeq(path, 1, Len(path) - 1)

\* directory trees: every entry but a top-level one lies in a directory of
\* the tree
ContextTrees ==
    {T \in SUBSET ContextEntries :
        /\ Cardinality(T) <= MaxEntries
        /\ \A e \in T : Len(e.path) > 1 => Dir(Parent(e.path)) \in T}

IsDir(T, path) == path = <<>> \/ Dir(path) \in T

RECURSIVE JoinSlash(_)
JoinSlash(path) ==
    IF Len(path) = 1 THEN path[1]
    ELSE path[1] \o <<"/">> \o JoinSlash(Tail(path))

\* filepath.Rel(contextPath, path)
RelPath(path) == IF path = <<>> THEN <<".">> ELSE JoinSlash(path)

\* byte values of the characters of the names
CharCode(c) ==
    CASE c = "." -> 46 [] c = "D" -> 68 [] c = "H" -> 72 [] c = "a" -> 97
      [] c = "d" -> 100 [] c = "e" -> 101 [] c = "g" -> 103 [] c = "i" -> 105
      [] c = "n" -> 110 [] c = "o" -> 111 [] c = "r" -> 114 [] c = "s" -> 115
      [] c = "t" -> 116

\* a <= b in the byte order sort.Strings uses
RECURSIVE NameLeq(_, _)
NameLeq(a, b) ==
    IF a = <<>> THEN TRUE
    ELSE IF b = <<>> THEN FALSE
    ELSE IF CharCode(a[1]) # CharCode(b[1]) THEN CharCode(a[1]) < CharCode(b[1])
    ELSE NameLeq(Tail(a), Tail(b))

RECURSIVE SortNames(_)
SortNames(S) ==
    IF S = {} THEN <<>>
    ELSE LET m == CHOOSE x \in S : \A y \in S : NameLeq(x, y)
         IN  <<m>> \o SortNames(S \ {m})

\* readDirNames of filepath.Walk: the names in a directory, sorted
readDirNames(T, dir) ==
    SortNames({e.path[Len(e.path)] : e \in {x \in T :
        Len(x.path) = Len(dir) + 1 /\ Parent(x.path) = dir}})

\* strings.HasPrefix(relPath, ".git"): the callback returns filepath.SkipDir
Skipped(path) == HasPrefix(RelPath(path), DotGit)

\* What filepath.Walk does with a SkipDir returned for path: for a
\* directory, its contents are skipped and the loop over the parent goes
\* on; for a file, the loop over the containing directory ends, so the
\* remaining names of that directory are skipped too.
SkipDirStack(stack, isDir) ==
    IF isDir THEN stack ELSE SubSeq(stack, 1, Len(stack) - 1)

\* the walk goes on with the loop on top of the stack, or has returned
Resume(stack) == IF stack = <<>> THEN "closeTar" ELSE "next"

InitContext ==
    /\ compose = ComposeOf(XBundleOf(<<"n">>, V100))
    /\ localImages = {}
    /\ InitRest
    /\ ctxTree \in ContextTrees
    /\ producer = [IdleProducer EXCEPT !.pc = "start"]
    /\ pipe = OpenPipe
    /\ consumer = [IdleConsumer EXCEPT !.pc = "reading"]

\* filepath.Walk(contextPath, ...) calls the callback on the root
StartWalk ==
    /\ producer.pc = "start"
    /\ producer' = [producer EXCEPT !.pc = "callback", !.cur = <<>>]
    /\ UNCHANGED <<bundleVars, ctxTree, pipe, consumer>>

\* the callback up to tar.FileInfoHeader: an error (of lstat, of the
\* directory read, of Rel or of FileInfoHeader) ends the walk; a relative
\* path that begins with .git returns SkipDir
Callback ==
    /\ producer.pc = "callback"
    /\ \E ioErr \in BOOLEAN :
          producer' =
             IF ioErr
             THEN [producer EXCEPT !.pc = "closeTar", !.walkErr = TRUE,
                                   !.stack = <<>>]
             ELSE IF Skipped(producer.cur)
             THEN LET st == SkipDirStack(producer.stack,
                                         IsDir(ctxTree, producer.cur))
                  IN  [producer EXCEPT !.stack = st, !.pc = Resume(st)]
             ELSE [producer EXCEPT !.pc = "header"]
    /\ UNCHANGED <<bundleVars, ctxTree, pipe, consumer>>

WritePcs == {"header", "copy", "footer"}

WaitPc(p) ==
    CASE p = "header" -> "headerWait"
      [] p = "copy" -> "copyWait"
      [] p = "footer" -> "footerWait"

\* the producer after a write on the pipe returned an error
\* (io.ErrClosedPipe): WriteHeader or io.Copy fails and the callback
\* returns the error, which ends the walk; the error of the footer write
\* in tarWriter.Close is dropped
WriteFailed(p) ==
    IF p \in {"footer", "footerWait"}
    THEN [producer EXCEPT !.pc = "closeWriter", !.tarErr = TRUE]
    ELSE [producer EXCEPT !.pc = "closeTar", !.tarErr = TRUE, !.stack = <<>>]

\* the producer after a write on the pipe returned without error
WriteDone(p, openErr) ==
    CASE p = "headerWait" ->
            IF IsDir(ctxTree, producer.cur)
            THEN [producer EXCEPT
                    !.entries = @ \cup {RelPath(producer.cur)},
                    !.stack = Append(@, [path |-> producer.cur,
                                         names |-> readDirNames(ctxTree,
                                                                producer.cur)]),
                    !.pc = "next"]
            ELSE IF openErr
            THEN [producer EXCEPT
                    !.entries = @ \cup {RelPath(producer.cur)},
                    !.pc = "closeTar", !.walkErr = TRUE, !.stack = <<>>]
            ELSE [producer EXCEPT
                    !.entries = @ \cup {RelPath(producer.cur)},
                    !.pc = "copy"]
      [] p = "copyWait" -> [producer EXCEPT !.pc = "next"]
      [] p = "footerWait" -> [producer EXCEPT !.pc = "closeWriter"]

\* PipeWriter.Write, first half: with the read end closed it fails at
\* once, otherwise the data is handed to the reader
WriteBegin ==
    /\ producer.pc \in WritePcs
    /\ IF pipe.readerClosed
          THEN /\ producer' = WriteFailed(producer.pc)
               /\ UNCHANGED pipe
          ELSE /\ pipe' = [pipe EXCEPT !.pending =
                              [kind |-> producer.pc, path |-> producer.cur]]
               /\ producer' = [producer EXCEPT !.pc = WaitPc(producer.pc)]
    /\ UNCHANGED <<bundleVars, ctxTree, consumer>>

\* PipeWriter.Write, second half: it returns when the reader has taken the
\* data, or with an error when the read end was closed meanwhile
WriteEnd ==
    /\ producer.pc \in {WaitPc(p) : p \in WritePcs}
    /\ \/ /\ pipe.pending = NoChunk
          /\ \E openErr \in BOOLEAN :
                producer' = WriteDone(producer.pc, openErr)
          /\ UNCHANGED pipe
       \/ /\ pipe.pending # NoChunk
          /\ pipe.readerClosed
          /\ producer' = WriteFailed(producer.pc)
          /\ pipe' = [pipe EXCEPT !.pending = NoChunk]
    /\ UNCHANGED <<bundleVars, ctxTree, consumer>>

\* the loop of filepath.Walk over the names of the directory on top of the
\* stack
WalkNext ==
    /\ producer.pc = "next"
    /\ LET n == Len(producer.stack)
           top == producer.stack[n]
       IN  producer' =
              IF top.names = <<>>
              THEN LET st == SubSeq(producer.stack, 1, n - 1)
                   IN  [producer EXCEPT !.stack = st, !.pc = Resume(st)]
              ELSE [producer EXCEPT
                      !.stack[n].names = Tail(top.names),
                      !.cur = top.path \o <<Head(top.names)>>,
                      !.pc = "callback"]
    /\ UNCHANGED <<bundleVars, ctxTree, pipe, consumer>>

\* defer tarWriter.Close(): writes the footer unless a write already failed
CloseTarWriter ==
    /\ producer.pc = "closeTar"
    /\ producer' = [producer EXCEPT
                      !.pc = IF producer.tarErr THEN "closeWriter" ELSE "footer",
                      !.cur = <<>>]
    /\ UNCHANGED <<bundleVars, ctxTree, pipe, consumer>>

\* defer writer.Close()
CloseWriter ==
    /\ producer.pc = "closeWriter"
    /\ producer' = [producer EXCEPT !.pc = "closed"]
    /\ pipe' = [pipe EXCEPT !.writerClosed = TRUE]
    /\ UNCHANGED <<bundleVars, ctxTree, consumer>>

\* the build call reads what the producer is writing
ConsumerRead ==
    /\ consumer.pc = "reading"
    /\ pipe.pending # NoChunk
    /\ consumer' = [consumer EXCEPT !.received = @ \cup {pipe.pending}]
    /\ pipe' = [pipe EXCEPT !.pending = NoChunk]
    /\ UNCHANGED <<bundleVars, ctxTree, producer>>

\* the build call reads the end of the stream
ConsumerEOF ==
    /\ consumer.pc = "reading"
    /\ ~consumer.eof
    /\ pipe.pending = NoChunk
    /\ pipe.writerClosed
    /\ consumer' = [consumer EXCEPT !.eof = TRUE]
    /\ UNCHANGED <<bundleVars, ctxTree, producer, pipe>>

\* defer buildContextTar.Close(), run when buildImage returns
ReaderLeftOpen(closed) == closed

CloseOnReturn(closed) == TRUE

\* buildImage returns: ImageBuild failed (at any point of the transfer), or
\* the build output was read to its end
ConsumerReturn ==
    /\ consumer.pc = "reading"
    /\ consumer' = [consumer EXCEPT !.pc = "returned"]
    /\ pipe' = [pipe EXCEPT !.readerClosed = CloseOnReturn(@)]
    /\ UNCHANGED <<bundleVars, ctxTree, producer>>

ProducerNext ==
    \/ StartWalk
    \/ Callback
    \/ WriteBegin
    \/ WriteEnd
    \/ WalkNext
    \/ CloseTarWriter
    \/ CloseWriter

ConsumerNext ==
    \/ ConsumerRead
    \/ ConsumerEOF
    \/ ConsumerReturn

NextContext == ProducerNext \/ ConsumerNext

SpecContext == InitContext /\ [][NextContext]_vars

\* a runnable goroutine is eventually run, and the engine call eventually
\* returns
FairSpecContext ==
    /\ SpecContext
    /\ WF_vars(ProducerNext)
    /\ WF_vars(ConsumerNext)

\* ------------------------------------------------------------- properties
\* The semantic-version grammar, by splitting: an optional leading "v", a
\* core up to the first "-" or "+", made of exactly three dot-separated
\* numeric identifiers without leading zeros, then an optional "-" and
\* pre-release, then an optional "+" and build, both non-empty and made of
\* letters, digits, "_", "." and "-".
StripV(v) == IF v # <<>> /\ v[1] = "v" THEN Tail(v) ELSE v

FirstIndex(s, C) ==
    IF \E i \in 1..Len(s) : s[i] \in C
    THEN CHOOSE i \in 1..Len(s) :
            /\ s[i] \in C
            /\ \A j \in 1..(i - 1) : s[j] \notin C
    ELSE Len(s) + 1

IsNumericId(x) ==
    /\ x # <<>>
    /\ \A i \in 1..Len(x) : x[i] \in Digit
    /\ Len(x) > 1 => x[1] # "0"

IsIdent(x) ==
    /\ x # <<>>
    /\ \A i \in 1..Len(x) : x[i] \in Word \cup {".", "-"}

IsCore(core) ==
    LET dots == {i \in 1..Len(core) : core[i] = "."}
    IN  /\ Cardinality(dots) = 2
        /\ LET d1 == CHOOSE i \in dots : \A j \in dots : i <= j
               d2 == CHOOSE i \in dots : \A j \in dots : j <= i
           IN  /\ IsNumericId(SubSeq(core, 1, d1 - 1))
               /\ IsNumericId(SubSeq(core, d1 + 1, d2 - 1))
               /\ IsNumericId(SubSeq(core, d2 + 1, Len(core)))

IsBuildPart(x) == x = <<>> \/ (x[1] = "+" /\ IsIdent(Tail(x)))

SemverGrammar(version) ==
    LET s == StripV(version)
        k == FirstIndex(s, {"-", "+"})
        core == SubSeq(s, 1, k - 1)
        rest == SubSeq(s, k, Len(s))
    IN  /\ IsCore(core)
        /\ IF rest # <<>> /\ rest[1] = "-"
              THEN LET p == FirstIndex(rest, {"+"})
                   IN  /\ IsIdent(SubSeq(rest, 2, p - 1))
                       /\ IsBuildPart(SubSeq(rest, p, Len(rest)))
              ELSE IsBuildPart(rest)

MetadataValid(c) ==
    /\ ~c.XBundle.nil
    /\ c.XBundle.Name # <<>>
    /\ c.XBundle.Version # <<>>
    /\ SemverGrammar(c.XBundle.Version)

\* C4: when the bundle metadata is missing or invalid (no x-bundle block,
\* empty name, empty version, or a version outside the semantic-version
\* grammar), the run never gets past validation, no engine operation is
\* ever issued, and when the run ends Bundle has returned an error.
C4_NoEngineCallOnInvalidMetadata ==
    ~MetadataValid(parsed) =>
        /\ calls = NoCalls
        /\ pc \in {"parse", "validate", "done"}
        /\ pc = "done" => result = "err"

\* a run over a manifest with services to resolve whose version is "1.2"
\* has been parsed, rejected by validation, and has ended
C4_Witness ==
    /\ pc = "done"
    /\ result = "err"
    /\ ~parsed.XBundle.nil
    /\ parsed.XBundle.Name # <<>>
    /\ parsed.XBundle.Version = V12
    /\ \E s \in DOMAIN parsed.Services :
          parsed.Services[s].Image # <<>> \/ parsed.Services[s].Build # "nil"

\* C5: the validation step succeeds (Bundle goes on to the service loop)
\* exactly when the x-bundle block is present, the name is non-empty, the
\* version is non-empty and the version is in the semantic-version grammar;
\* otherwise Bundle returns an error; "1.2", "abc" and "1.2.3.4" are
\* rejected.
C5_ValidationExact ==
    [][pc = "validate" =>
          /\ (pc' = "services" /\ result' = "none") <=> MetadataValid(compose)
          /\ (pc' = "done" /\ result' = "err") <=> ~MetadataValid(compose)
          /\ compose.XBundle.Version \in
                {V12, <<"a", "b", "c">>, <<"1", ".", "2", ".", "3", ".", "4">>}
             => pc' = "done" /\ result' = "err"]_vars

\* validation has accepted a version with a leading v, a pre-release and
\* build metadata
C5_Witness ==
    /\ pc = "services"
    /\ result = "none"
    /\ compose.XBundle.Version =
          <<"v", "1", ".", "0", ".", "0", "-", "a", "+", "a">>

\* the images Bundle removed or tried to remove
RemovalAttempts == BagToSet(calls.remove)

Once(x) == SetToBag({x})

\* C1: after a successful run, distinct resolved references have distinct
\* tar file names, every resolved reference is held by its own tar file,
\* and the archive has as many images/ entries as there are resolved
\* references.
C1_OneTarPerResolvedImage ==
    result = "ok" =>
        /\ \A r1, r2 \in DOMAIN imageMap :
              r1 # r2 => imageMap[r1] # imageMap[r2]
        /\ \A r \in DOMAIN imageMap :
              /\ imageMap[r] \in DOMAIN imageFiles
              /\ imageFiles[imageMap[r]].image = r
        /\ Cardinality(archive.images) = Cardinality(DOMAIN imageMap)

\* bundles/<bundleName>/<serviceName>:<bundleVersion>
C2_Expected(c, s) ==
    <<"b", "u", "n", "d", "l", "e", "s", "/">> \o c.XBundle.Name \o <<"/">>
        \o s \o <<":">> \o c.XBundle.Version

\* C2: a step that processes a service whose build field is set issues no
\* inspect and no pull, builds (when the build value is a string or a
\* mapping) once and under the synthetic reference, and after a successful
\* build the manifest holds the service with build cleared and image equal
\* to the synthetic reference, which is the reference returned and the
\* only key added to the resolved-image map.
C2_BuildTakesPrecedence ==
    [][\A s \in ServiceNames :
          (/\ pc = "services"
           /\ s \in todo
           /\ compose.Services[s].Build # "nil"
           /\ ret'.svc = s)
          => LET syn == C2_Expected(compose, s)
             IN  /\ calls'.inspect = calls.inspect
                 /\ calls'.pull = calls.pull
                 /\ calls'.build =
                       IF compose.Services[s].Build \in {"string", "map"}
                       THEN calls.build (+) Once(syn)
                       ELSE calls.build
                 /\ (calls'.build # calls.build /\ reply' = "ok")
                    => /\ compose'.Services[s] = [Image |-> syn, Build |-> "nil"]
                       /\ ret' = [svc |-> s, imageName |-> syn, err |-> FALSE]
                       /\ DOMAIN imageMap' = DOMAIN imageMap \cup {syn}
                       /\ result' = "none"
                 /\ (calls'.build = calls.build \/ reply' # "ok")
                    => /\ ret'.err
                       /\ result' = "err"
                       /\ compose' = compose
                       /\ imageMap' = imageMap]_vars

\* a service that had both a build and an image field has been built: the
\* manifest holds it with the synthetic reference
C2_Witness ==
    \E s \in ServiceNames :
        /\ parsed.Services[s].Build # "nil"
        /\ parsed.Services[s].Image # <<>>
        /\ ret = [svc |-> s, imageName |-> C2_Expected(parsed, s), err |-> FALSE]
        /\ compose.Services[s] =
              [Image |-> C2_Expected(parsed, s), Build |-> "nil"]
        /\ C2_Expected(parsed, s) \in DOMAIN imageMap

\* the step that inspects the image of service s (no build, image set)
C3_InspectStep(s) ==
    /\ pc = "services"
    /\ s \in todo
    /\ compose.Services[s].Build = "nil"
    /\ compose.Services[s].Image # <<>>
    /\ ret'.svc = s \/ (pc' = "pull" /\ cur' = s)

\* what C3 says of the inspect: it comes first, and an image found is
\* neither pulled nor recorded, and is returned unchanged
C3_InspectPart ==
    \A s \in ServiceNames :
        C3_InspectStep(s)
        => LET img == compose.Services[s].Image
           IN  /\ calls'.inspect = calls.inspect (+) Once(img)
               /\ calls'.pull = calls.pull
               /\ freshlyPulledImages' = freshlyPulledImages
               /\ IF img \in localImages
                     THEN /\ pc' = "services"
                          /\ ret' = [svc |-> s, imageName |-> img, err |-> FALSE]
                          /\ compose'.Services[s] = compose.Services[s]
                          /\ result' = "none"
                     ELSE pc' = "pull" /\ cur' = s

\* what C3 says of the pull of an absent image, but for the recording
C3_PullPart ==
    (pc = "pull" /\ pc' # "pull")
    => LET img == compose.Services[cur].Image
       IN  /\ calls'.pull = calls.pull (+) Once(img)
           /\ CopiesIn(img, calls'.pull) = 1
           /\ calls'.inspect = calls.inspect
           /\ result' = "none"
              => /\ ret' = [svc |-> cur, imageName |-> img, err |-> FALSE]
                 /\ compose' = compose
           /\ reply' = "errorFrame" => (result' = "err" /\ ret'.err)

\* C3 as stated: whenever the inspect finds nothing, the pull that follows
\* adds the reference to the freshly-pulled set.
C3_PullAlwaysRecorded ==
    [][/\ C3_InspectPart
       /\ C3_PullPart
       /\ (pc = "pull" /\ pc' # "pull")
          => compose.Services[cur].Image \in freshlyPulledImages']_vars

\* C3 amended: the reference is added to the freshly-pulled set exactly
\* when the pull call returned a stream, whether or not the stream then
\* carries an error; a pull call that itself fails records nothing and
\* makes the resolver fail.
C3_PullRecordedOnceStreamOpened ==
    [][/\ C3_InspectPart
       /\ C3_PullPart
       /\ (pc = "pull" /\ pc' # "pull")
          => LET img == compose.Services[cur].Image
             IN  /\ img \in freshlyPulledImages' <=> reply' # "callErr"
                 /\ freshlyPulledImages' \subseteq freshlyPulledImages \cup {img}
                 /\ reply' # "ok" => (result' = "err" /\ ret'.err)]_vars

\* one image was pulled and recorded, then the pull call for another
\* image failed and recorded nothing
C3_Witness ==
    /\ pc = "done"
    /\ reply = "callErr"
    /\ ret.err
    /\ freshlyPulledImages # {}
    /\ \E img \in BagToSet(calls.pull) : img \notin freshlyPulledImages

\* C6: when Bundle has returned an error, the output path holds no new or
\* partially written archive.
C6_NoPartialArchiveOnError ==
    result = "err" => outputFile = "absent"

\* C7: once created, the temporary directory is covered by the deferred
\* removal, and no run ends with the directory still present.
C7_TempDirRemoved ==
    /\ tempDir => deferred
    /\ pc = "done" => ~tempDir

\* a run whose save failed while copying, after the temporary directory
\* was created, has ended
C7_Witness ==
    /\ pc = "done"
    /\ result = "err"
    /\ deferred
    /\ reply = "copyErr"
    /\ imageFiles # <<>>

\* C8: at the end of a successful run, the images cleanup tried to remove
\* are exactly the images built or freshly pulled by the run.
C8_CleanupExactlyBuiltOrPulled ==
    (pc = "done" /\ result = "ok")
    => RemovalAttempts = builtThisRun \cup freshlyPulledImages

\* C9: when a run has ended, successfully or not, cleanup has tried to
\* remove every image the run built or freshly pulled.
C9_CleanupAlwaysAttempted ==
    pc = "done" => (builtThisRun \cup freshlyPulledImages) \subseteq RemovalAttempts

\* the images the cleanup phase visits: service images with the prefix
\* cleanupImages looks for, and the freshly pulled images
C10_CleanupSet ==
    {compose.Services[s].Image : s \in {t \in DOMAIN compose.Services :
        HasPrefix(compose.Services[t].Image, BundledPrefix)}}
    \cup freshlyPulledImages

\* C10: once the archive has been written, Bundle never returns an error,
\* and when it returns every image of the cleanup phase has had its
\* removal attempt, whichever removals failed.
C10_CleanupNeverFatal ==
    outputFile = "complete" =>
        /\ result # "err"
        /\ pc = "done" => /\ result = "ok"
                          /\ C10_CleanupSet \subseteq RemovalAttempts
        /\ removeFailed \subseteq RemovalAttempts

\* a successful run in which a removal failed and at least two images had
\* a removal attempt
C10_Witness ==
    /\ pc = "done"
    /\ result = "ok"
    /\ removeFailed # {}
    /\ Cardinality(RemovalAttempts) >= 2

\* the outcomes of a build, pull or save that make the call fail
FailedReplies ==
    {"callErr", "decodeErr", "errorFrame", "saveErr", "createErr", "copyErr"}

\* C11: once a build, pull or save call has failed, Bundle has returned an
\* error, the run is over (no step issues another call), no archive has
\* been written, and no build, pull or save call was ever issued twice for
\* the same reference.
C11_FailedCallAbortsRun ==
    /\ reply \in FailedReplies
       => /\ pc = "done"
          /\ result = "err"
          /\ outputFile = "absent"
          /\ archive = NoArchive
    /\ \A op \in {"build", "pull", "save"} :
          \A r \in BagToSet(calls[op]) : CopiesIn(r, calls[op]) = 1

\* a build or pull reported an error frame while another service with an
\* image or a build was still waiting, and the run has ended
C11_Witness ==
    /\ pc = "done"
    /\ reply = "errorFrame"
    /\ \E s \in todo \ {ret.svc} :
          compose.Services[s].Image # <<>> \/ compose.Services[s].Build # "nil"

\* the files Bundle writes in the temporary directory after the save loop
AssemblyFiles ==
    {"docker-compose.yml", "load-images.sh", "load-images.bat", "README.md"}

\* C12: a save is issued only when every service has been resolved (built,
\* or inspected and present in the resolved-image map); the compose file,
\* the scripts and the README exist only when every resolved image has been
\* saved once and completely; the output file is touched only when all of
\* them and images/ exist; a removal is issued only when the archive is
\* complete.
C12_PhasesOrdered ==
    /\ calls.save # EmptyBag
       => /\ todo = {}
          /\ \A s \in DOMAIN parsed.Services :
                /\ parsed.Services[s].Build # "nil"
                   => C2_Expected(parsed, s) \in builtThisRun \cap DOMAIN imageMap
                /\ (parsed.Services[s].Build = "nil"
                       /\ parsed.Services[s].Image # <<>>)
                   => /\ parsed.Services[s].Image \in DOMAIN imageMap
                      /\ CopiesIn(parsed.Services[s].Image, calls.inspect) >= 1
    /\ tempFiles \cap AssemblyFiles # {}
       => \A r \in DOMAIN imageMap :
             /\ CopiesIn(r, calls.save) = 1
             /\ imageMap[r] \in DOMAIN imageFiles
             /\ imageFiles[imageMap[r]].complete
    /\ outputFile # "absent" => AssemblyFiles \cup {"images"} \subseteq tempFiles
    /\ calls.remove # EmptyBag => outputFile = "complete"

\* a successful run that saved two images and then tried a removal
C12_Witness ==
    /\ pc = "done"
    /\ result = "ok"
    /\ BagCardinality(calls.save) >= 2
    /\ calls.remove # EmptyBag

\* a path that begins with .git, or lies under a directory whose relative
\* path begins with .git
C13_Excluded(path) ==
    \E k \in 1..Len(path) :
        LET rel == RelPath(SubSeq(path, 1, k))
        IN  Len(rel) >= 4 /\ SubSeq(rel, 1, 4) = <<".", "g", "i", "t">>

\* the entries the archive of a context directory must hold: the root and
\* every file and directory that is not excluded
C13_Expected(T) ==
    {<<".">>} \cup {RelPath(e.path) : e \in {x \in T : ~C13_Excluded(x.path)}}

\* C13: when the producer has finished a walk in which nothing failed, the
\* archive holds an entry for exactly the files and directories that are
\* not excluded; an excluded path never leaves a sibling out.
C13_ExactlyNonGitEntries ==
    (producer.pc = "closed" /\ ~producer.walkErr /\ ~producer.tarErr)
    => producer.entries = C13_Expected(ctxTree)

\* C14: in every fair interleaving the producer ends with the write end of
\* the pipe closed, and the build call returns.
C14_ProducerTerminates ==
    /\ <>(producer.pc = "closed" /\ pipe.writerClosed)
    /\ <>(consumer.pc = "returned")

\* the build call returned before the end of the stream and closed the
\* read end, a write of the producer failed on it, and the producer has
\* closed the write end
C14_Witness ==
    /\ producer.pc = "closed"
    /\ pipe.writerClosed
    /\ producer.tarErr
    /\ pipe.readerClosed
    /\ ~consumer.eof
    /\ consumer.received # {}

====
